---- MODULE Spec2Model ----
(***************************************************************************)
(* pyasic BFGMinerAPI (src/pyasic/API/bfgminer.py): the multicommand       *)
(* orchestrator with its sequential fallback, and the command wrappers.    *)
(*                                                                         *)
(* A Python str is a sequence of tokens: a command name or an option is    *)
(* one token, the separators "+" and "," are tokens of their own.  So      *)
(* "pools+summary" is <<"pools", "+", "summary">> and "" is <<>>.          *)
(* A Python value handed to send_command as parameters is tagged:          *)
(* <<"none">>, <<"int", n>>, <<"bool", b>>, <<"str", s>>.                  *)
(* A dict is a function from str keys to values.                           *)
(***************************************************************************)
EXTENDS Integers, Sequences, FiniteSets, TLC

\* longest argument list a caller hands to multicommand
MaxCmds == 3
\* largest device / pool index a caller hands to a wrapper
MaxN == 1
\* largest option value a caller hands to pgaset / pprocset
MaxVal == 2

VARIABLES
    pc,            \* where the awaited coroutine stands: idle, batched, x19, wrapper, done
    call,          \* the method the caller invoked, with its arguments
    commands,      \* multicommand: the validated commands (line 46)
    command,       \* multicommand: the joined request line (line 49)
    x19_commands,  \* _x19_multicommand: its *commands (line 58)
    x19_next,      \* _x19_multicommand: position of the for loop (line 63)
    data,          \* the dict being built (lines 51, 54, 61)
    sc,            \* the send_command being awaited: none, called (no I/O yet), sent
    calls,         \* every send_command invocation so far, with its outcome
    log,           \* levels of the logging calls made
    result         \* what the caller got: <<"none">>, <<"return", v>>, <<"raise", kind>>

vars == <<pc, call, commands, command, x19_commands, x19_next, data, sc, calls, log, result>>

----------------------------------------------------------------------------
(* Python values *)

PyNone == <<"none">>
PyInt(n) == <<"int", n>>
PyBool(b) == <<"bool", b>>
PyStr(s) == <<"str", s>>

\* bool(v), as `if val:` and `if filename:` evaluate it
Truthy(v) ==
    CASE v[1] = "none" -> FALSE
      [] v[1] = "int" -> v[2] # 0
      [] v[1] = "bool" -> v[2]
      [] v[1] = "str" -> v[2] # <<>>

\* str(v), as an f-string field "{v}" formats it
Format(v) ==
    CASE v[1] = "none" -> <<"None">>
      [] v[1] = "int" -> <<ToString(v[2])>>
      [] v[1] = "bool" -> IF v[2] THEN <<"True">> ELSE <<"False">>
      [] v[1] = "str" -> v[2]

\* ",".join(fields) of already formatted fields
RECURSIVE CommaJoin(_)
CommaJoin(fields) ==
    IF fields = <<>> THEN <<>>
    ELSE IF Len(fields) = 1 THEN fields[1]
    ELSE fields[1] \o <<",">> \o CommaJoin(Tail(fields))

\* "+".join(cmds)
RECURSIVE Join(_)
Join(cmds) ==
    IF cmds = <<>> THEN <<>>
    ELSE IF Len(cmds) = 1 THEN cmds[1]
    ELSE cmds[1] \o <<"+">> \o Join(Tail(cmds))

RECURSIVE SplitFrom(_, _)
SplitFrom(line, cur) ==
    IF line = <<>> THEN <<cur>>
    ELSE IF Head(line) = "+" THEN <<cur>> \o SplitFrom(Tail(line), <<>>)
    ELSE SplitFrom(Tail(line), Append(cur, Head(line)))

\* line.split("+"): never an empty list, "".split("+") is [""]
Split(line) == SplitFrom(line, <<>>)

Reverse(s) == [k \in 1..Len(s) |-> s[Len(s) + 1 - k]]

----------------------------------------------------------------------------
(* dicts *)

EmptyDict == [k \in {} |-> TRUE]
DictSet(d, k, v) == [x \in DOMAIN d \cup {k} |-> IF x = k THEN v ELSE d[x]]
MulticommandKey == <<"multicommand">>
StatusKey == <<"STATUS">>

----------------------------------------------------------------------------
(* The command wrappers, lines 74-674.  Each is the call of send_command   *)
(* its body makes: the command name, the parameters and allow_warning      *)
(* (the dispatcher's default, True, as no wrapper passes it).              *)

\* the invocation self.send_command(cmd, parameters=..., allow_warning=...)
send_command(cmd, parameters, allow_warning) ==
    [cmd |-> cmd, parameters |-> parameters, allow_warning |-> allow_warning]

\* the method names of the class, in source order
Methods ==
    <<"version", "config", "summary", "pools", "devs", "procs", "devscan",
      "pga", "proc", "pgacount", "proccount", "switchpool", "enablepool",
      "addpool", "poolpriority", "poolquota", "disablepool", "removepool",
      "save", "quit", "notify", "privileged", "pgaenable", "pgadisable",
      "pgarestart", "pgaidentify", "procenable", "procdisable",
      "procrestart", "procidentify", "devdetails", "restart", "stats",
      "check", "failover_only", "coin", "debug", "setconfig", "pgaset",
      "pprocset", "zero">>

version == send_command(<<"version">>, PyNone, TRUE)
config == send_command(<<"config">>, PyNone, TRUE)
summary == send_command(<<"summary">>, PyNone, TRUE)
pools == send_command(<<"pools">>, PyNone, TRUE)
devs == send_command(<<"devs">>, PyNone, TRUE)
procs == send_command(<<"procs">>, PyNone, TRUE)
devscan(info) == send_command(<<"devscan">>, info, TRUE)
pga(n) == send_command(<<"pga">>, n, TRUE)
proc(n) == send_command(<<"proc">>, n, TRUE)
pgacount == send_command(<<"pgacount">>, PyNone, TRUE)
proccount == send_command(<<"proccount">>, PyNone, TRUE)
switchpool(n) == send_command(<<"switchpool">>, n, TRUE)
enablepool(n) == send_command(<<"enablepool">>, n, TRUE)
addpool(url, username, password) ==
    send_command(<<"addpool">>,
                 PyStr(CommaJoin(<<Format(url), Format(username), Format(password)>>)), TRUE)
poolpriority(n) ==
    LET pools_str == PyStr(CommaJoin([k \in 1..Len(n) |-> Format(n[k])]))
    IN send_command(<<"poolpriority">>, pools_str, TRUE)
poolquota(n, q) == send_command(<<"poolquota">>, PyStr(CommaJoin(<<Format(n), Format(q)>>)), TRUE)
disablepool(n) == send_command(<<"disablepool">>, n, TRUE)
removepool(n) == send_command(<<"removepool">>, n, TRUE)
save(filename) ==
    IF Truthy(filename)
    THEN send_command(<<"save">>, filename, TRUE)
    ELSE send_command(<<"save">>, PyNone, TRUE)
quit == send_command(<<"quit">>, PyNone, TRUE)
notify == send_command(<<"notify">>, PyNone, TRUE)
privileged == send_command(<<"privileged">>, PyNone, TRUE)
pgaenable(n) == send_command(<<"pgaenable">>, n, TRUE)
pgadisable(n) == send_command(<<"pgadisable">>, n, TRUE)
pgarestart(n) == send_command(<<"pgadisable">>, n, TRUE)
pgaidentify(n) == send_command(<<"pgaidentify">>, n, TRUE)
procenable(n) == send_command(<<"procenable">>, n, TRUE)
procdisable(n) == send_command(<<"procdisable">>, n, TRUE)
procrestart(n) == send_command(<<"procdisable">>, n, TRUE)
procidentify(n) == send_command(<<"procidentify">>, n, TRUE)
devdetails == send_command(<<"devdetails">>, PyNone, TRUE)
restart == send_command(<<"restart">>, PyNone, TRUE)
stats == send_command(<<"stats">>, PyNone, TRUE)
check(cmd) == send_command(<<"check">>, cmd, TRUE)
failover_only(failover) == send_command(<<"failover-only">>, failover, TRUE)
coin == send_command(<<"coin">>, PyNone, TRUE)
debug(setting) == send_command(<<"debug">>, setting, TRUE)
setconfig(name, n) == send_command(<<"setconfig">>, PyStr(CommaJoin(<<Format(name), Format(n)>>)), TRUE)
pgaset(n, opt, val) ==
    IF Truthy(val)
    THEN send_command(<<"pgaset">>, PyStr(CommaJoin(<<Format(n), Format(opt), Format(val)>>)), TRUE)
    ELSE send_command(<<"pgaset">>, PyStr(CommaJoin(<<Format(n), Format(opt)>>)), TRUE)
pprocset(n, opt, val) ==
    IF Truthy(val)
    THEN send_command(<<"pgaset">>, PyStr(CommaJoin(<<Format(n), Format(opt), Format(val)>>)), TRUE)
    ELSE send_command(<<"pgaset">>, PyStr(CommaJoin(<<Format(n), Format(opt)>>)), TRUE)
zero(which, summ) == send_command(<<"zero">>, PyStr(CommaJoin(<<Format(which), Format(summ)>>)), TRUE)

----------------------------------------------------------------------------
(* The dispatcher and the command registry live in pyasic/API/__init__.py  *)
(* (BaseMinerAPI), which is not among the sources: they follow the         *)
(* specification's sections 4.1, 4.3 and 7.                                *)

ErrorKinds == {"APIError", "ConnectionError", "MalformedReply", "UnsupportedCommand"}

\* the miner's allow-list: the commands the API class offers
AllowList == {<<Methods[k]>> : k \in DOMAIN Methods}

\* _check_commands: the supported commands, in the caller's order
check_commands(cmds) == SelectSeq(cmds, LAMBDA c : c \in AllowList)

\* the decoded reply of invocation n: a dict whose STATUS section carries
\* the miner's status for the request line it answers
Reply(n, line, status) == DictSet(EmptyDict, StatusKey, <<status, line, n>>)

\* status classification (4.3 step 5): does the dispatcher raise APIError
IsAPIError(status, aw) == status = "E" \/ (status = "W" /\ ~aw)

----------------------------------------------------------------------------
(* multicommand and _x19_multicommand, lines 44-72 *)

\* line 46: commands = self._check_commands(*commands)
ValidatedCommandsUnchecked(cmds) == cmds
ValidatedCommands(cmds) == check_commands(cmds)

\* line 52: except APIError
MulticommandCatchesAny(kind) == TRUE
MulticommandCatchesNothing(kind) == FALSE
MulticommandCatches(kind) == kind = "APIError"

\* line 54: *command.split("+")
X19ArgsReversed(line) == Reverse(Split(line))
X19Args(line) == Split(line)

\* line 55: data["multicommand"] = True
NoMark(d) == d
Mark(d) == DictSet(d, MulticommandKey, TRUE)

\* line 66: except APIError: pass
X19Passes(kind) == kind = "APIError"

\* line 68: except Exception as e: logging.warning(...)
X19LogsNothing(kind) == FALSE
X19Logs(kind) == kind \in ErrorKinds

\* line 65: allow_warning=True, whatever the caller of multicommand passed
X19AllowWarningOfCaller(aw) == aw
X19AllowWarning(aw) == TRUE

\* line 65: data[cmd].append(reply)
DictAppend(d, k, v) == [d EXCEPT ![k] = Append(@, v)]

----------------------------------------------------------------------------
(* inputs *)

\* what callers hand to multicommand: three supported commands, one the
\* miner does not support
CallerCommands == {<<"pools">>, <<"summary">>, <<"version">>, <<"asccount">>}
CommandLists == UNION {[1..n -> CallerCommands] : n \in 0..MaxCmds}
Indices == {PyInt(n) : n \in 0..MaxN}
Options == {PyStr(<<"clock">>), PyStr(<<"help">>)}
Values == {PyNone} \cup {PyInt(v) : v \in 0..MaxVal} \cup {PyInt(50)}
Filenames == {PyNone, PyStr(<<>>), PyStr(<<"bfg.conf">>)}

----------------------------------------------------------------------------
(* state machine *)

Init ==
    /\ pc = "idle"
    /\ call = [method |-> "none", args |-> <<>>]
    /\ commands = <<>>
    /\ command = <<>>
    /\ x19_commands = <<>>
    /\ x19_next = 0
    /\ data = EmptyDict
    /\ sc = "none"
    /\ calls = <<>>
    /\ log = <<>>
    /\ result = <<"none">>

\* a send_command invocation, before any I/O
NewCall(inv) ==
    [cmd |-> inv.cmd, parameters |-> inv.parameters, allow_warning |-> inv.allow_warning,
     io |-> FALSE, status |-> "none", outcome |-> "pending"]

Cur == calls[Len(calls)]

Settled(io, status, outcome) ==
    [calls EXCEPT ![Len(calls)] =
        [@ EXCEPT !.io = io, !.status = status, !.outcome = outcome]]

\* the awaited coroutine ends: the caller gets res
Finish(cs, res, d, lg) ==
    /\ pc' = "done"
    /\ sc' = "none"
    /\ calls' = cs
    /\ result' = res
    /\ data' = d
    /\ log' = lg
    /\ UNCHANGED <<call, commands, command>>

\* lines 63-65 up to the await, or lines 72 and 55-56 when the loop is over
X19Iterate(cs, cmds, d, n, lg) ==
    /\ x19_commands' = cmds
    /\ x19_next' = n
    /\ IF n <= Len(cmds)
       THEN /\ pc' = "x19"
            /\ data' = DictSet(d, cmds[n], <<>>)
            /\ calls' = Append(cs, NewCall(send_command(cmds[n], PyNone,
                                                      X19AllowWarning(call.args[2]))))
            /\ sc' = "called"
            /\ log' = lg
            /\ UNCHANGED <<call, commands, command, result>>
       ELSE Finish(cs, <<"return", Mark(d)>>, Mark(d), lg)

\* lines 51-56: what multicommand does with the batched attempt's outcome
ResumeMulticommand(cs, out) ==
    IF out[1] = "return"
    THEN /\ Finish(cs, <<"return", Mark(out[2])>>, Mark(out[2]), log)
         /\ UNCHANGED <<x19_commands, x19_next>>
    ELSE IF MulticommandCatches(out[2])
    THEN X19Iterate(cs, X19Args(command), EmptyDict, 1, Append(log, "debug"))
    ELSE /\ Finish(cs, out, data, log)
         /\ UNCHANGED <<x19_commands, x19_next>>

\* lines 65-72: what _x19_multicommand does with one command's outcome
ResumeX19(cs, out) ==
    IF out[1] = "return"
    THEN X19Iterate(cs, x19_commands,
                    DictAppend(data, x19_commands[x19_next], out[2]),
                    x19_next + 1, log)
    ELSE IF X19Passes(out[2])
    THEN /\ Finish(cs, <<"return", Mark(data)>>, Mark(data), log)
         /\ UNCHANGED <<x19_commands, x19_next>>
    ELSE IF X19Logs(out[2])
    THEN /\ Finish(cs, <<"return", Mark(data)>>, Mark(data), Append(log, "warning"))
         /\ UNCHANGED <<x19_commands, x19_next>>
    ELSE /\ Finish(cs, out, data, log)
         /\ UNCHANGED <<x19_commands, x19_next>>

\* a wrapper returns what send_command returns and raises what it raises
ResumeWrapper(cs, out) ==
    /\ Finish(cs, out, data, log)
    /\ UNCHANGED <<x19_commands, x19_next>>

Resume(cs, out) ==
    CASE pc = "batched" -> ResumeMulticommand(cs, out)
      [] pc = "x19" -> ResumeX19(cs, out)
      [] pc = "wrapper" -> ResumeWrapper(cs, out)

\* lines 44-51, up to the await of the batched attempt
multicommand(cmds, allow_warning) ==
    /\ pc = "idle"
    /\ call' = [method |-> "multicommand", args |-> <<cmds, allow_warning>>]
    /\ commands' = ValidatedCommands(cmds)
    /\ command' = Join(commands')
    /\ pc' = "batched"
    /\ calls' = Append(calls, NewCall(send_command(command', PyNone, allow_warning)))
    /\ sc' = "called"
    /\ UNCHANGED <<x19_commands, x19_next, data, log, result>>

Invoke(method, args, inv) ==
    /\ pc = "idle"
    /\ call' = [method |-> method, args |-> args]
    /\ pc' = "wrapper"
    /\ calls' = Append(calls, NewCall(inv))
    /\ sc' = "called"
    /\ UNCHANGED <<commands, command, x19_commands, x19_next, data, log, result>>

Texts == {PyStr(<<>>), PyStr(<<"all">>)}
IndexLists == UNION {[1..n -> Indices] : n \in 0..2}

\* the caller invokes one of the wrappers, lines 74-674; each runs up to
\* the await of its send_command
Wrapper ==
    \/ Invoke("version", <<>>, version)
    \/ Invoke("config", <<>>, config)
    \/ Invoke("summary", <<>>, summary)
    \/ Invoke("pools", <<>>, pools)
    \/ Invoke("devs", <<>>, devs)
    \/ Invoke("procs", <<>>, procs)
    \/ \E info \in Texts : Invoke("devscan", <<info>>, devscan(info))
    \/ \E n \in Indices : Invoke("pga", <<n>>, pga(n))
    \/ \E n \in Indices : Invoke("proc", <<n>>, proc(n))
    \/ Invoke("pgacount", <<>>, pgacount)
    \/ Invoke("proccount", <<>>, proccount)
    \/ \E n \in Indices : Invoke("switchpool", <<n>>, switchpool(n))
    \/ \E n \in Indices : Invoke("enablepool", <<n>>, enablepool(n))
    \/ \E url \in Texts, user \in Texts :
          Invoke("addpool", <<url, user, PyStr(<<"x">>)>>, addpool(url, user, PyStr(<<"x">>)))
    \/ \E n \in IndexLists : Invoke("poolpriority", n, poolpriority(n))
    \/ \E n \in Indices, q \in Indices :
          Invoke("poolquota", <<n, q>>, poolquota(n, q))
    \/ \E n \in Indices : Invoke("disablepool", <<n>>, disablepool(n))
    \/ \E n \in Indices : Invoke("removepool", <<n>>, removepool(n))
    \/ \E f \in Filenames : Invoke("save", <<f>>, save(f))
    \/ Invoke("quit", <<>>, quit)
    \/ Invoke("notify", <<>>, notify)
    \/ Invoke("privileged", <<>>, privileged)
    \/ \E n \in Indices : Invoke("pgaenable", <<n>>, pgaenable(n))
    \/ \E n \in Indices : Invoke("pgadisable", <<n>>, pgadisable(n))
    \/ \E n \in Indices : Invoke("pgarestart", <<n>>, pgarestart(n))
    \/ \E n \in Indices : Invoke("pgaidentify", <<n>>, pgaidentify(n))
    \/ \E n \in Indices : Invoke("procenable", <<n>>, procenable(n))
    \/ \E n \in Indices : Invoke("procdisable", <<n>>, procdisable(n))
    \/ \E n \in Indices : Invoke("procrestart", <<n>>, procrestart(n))
    \/ \E n \in Indices : Invoke("procidentify", <<n>>, procidentify(n))
    \/ Invoke("devdetails", <<>>, devdetails)
    \/ Invoke("restart", <<>>, restart)
    \/ Invoke("stats", <<>>, stats)
    \/ \E c \in Texts : Invoke("check", <<c>>, check(c))
    \/ \E b \in BOOLEAN :
          Invoke("failover_only", <<PyBool(b)>>, failover_only(PyBool(b)))
    \/ Invoke("coin", <<>>, coin)
    \/ \E setting \in Texts : Invoke("debug", <<setting>>, debug(setting))
    \/ \E name \in Texts, n \in Indices :
          Invoke("setconfig", <<name, n>>, setconfig(name, n))
    \/ \E n \in Indices, opt \in Options, val \in Values :
          Invoke("pgaset", <<n, opt, val>>, pgaset(n, opt, val))
    \/ \E n \in Indices, opt \in Options, val \in Values :
          Invoke("pprocset", <<n, opt, val>>, pprocset(n, opt, val))
    \/ \E which \in Texts, b \in BOOLEAN :
          Invoke("zero", <<which, PyBool(b)>>, zero(which, PyBool(b)))

----------------------------------------------------------------------------
(* send_command, as the specification's section 4.3 describes it *)

\* step 1 fails: the command is not in the registry, nothing is sent.  A
\* joined line is no registry entry but must reach the miner for the batched
\* attempt to mean anything, so for any line that is not one registered
\* command the dispatcher may refuse or transmit.
Unsupported ==
    /\ sc = "called"
    /\ Cur.cmd \notin AllowList
    /\ Resume(Settled(FALSE, "none", "UnsupportedCommand"), <<"raise", "UnsupportedCommand">>)

\* steps 2-3: the request line goes out on a fresh connection
Transmit ==
    /\ sc = "called"
    /\ sc' = "sent"
    /\ calls' = [calls EXCEPT ![Len(calls)].io = TRUE]
    /\ UNCHANGED <<pc, call, commands, command, x19_commands, x19_next, data, log, result>>

\* step 3 fails: the connection is refused, or times out after the request
ConnectionFailed ==
    /\ sc \in {"called", "sent"}
    /\ Resume(Settled(Cur.io, "none", "ConnectionError"), <<"raise", "ConnectionError">>)

\* step 4 fails: the payload received does not decode
Malformed ==
    /\ sc = "sent"
    /\ Resume(Settled(TRUE, "none", "MalformedReply"), <<"raise", "MalformedReply">>)

\* step 5: the miner answered with status S (success), W (warning) or E (error)
Answer(status) ==
    /\ sc = "sent"
    /\ IF IsAPIError(status, Cur.allow_warning)
       THEN Resume(Settled(TRUE, status, "APIError"), <<"raise", "APIError">>)
       ELSE Resume(Settled(TRUE, status, "return"),
                   <<"return", Reply(Len(calls), Cur.cmd, status)>>)

Next ==
    \/ \E cmds \in CommandLists, aw \in BOOLEAN : multicommand(cmds, aw)
    \/ Wrapper
    \/ Unsupported
    \/ Transmit
    \/ ConnectionFailed
    \/ Malformed
    \/ \E status \in {"S", "W", "E"} : Answer(status)

Spec == Init /\ [][Next]_vars

----------------------------------------------------------------------------
(* vocabulary of the properties *)

IsMulticommand == call.method = "multicommand"
IsWrapper == call.method \notin {"none", "multicommand"}
Done == pc = "done"
Returned == pc = "done" /\ result[1] = "return"
RaisedKind(kind) == pc = "done" /\ result[1] = "raise" /\ result[2] = kind

\* the invocations the sequential fallback made: all but the batched attempt
Individual == 2..Len(calls)
FellBack == Len(calls) >= 2
IndividualCommands == [k \in 1..(Len(calls) - 1) |-> calls[k + 1].cmd]

RECURSIVE Range(_)
Range(s) == IF s = <<>> THEN {} ELSE {Head(s)} \cup Range(Tail(s))

----------------------------------------------------------------------------
(* C1: when the batched attempt raises APIError, every validated command   *)
(* is sent individually, also those after a command whose own send raised  *)
(* APIError, and the reply holds an entry for every command that           *)
(* succeeded.  Stated for calls in which no other error kind occurs.       *)
C1_FailedCommandDoesNotAbort ==
    (/\ IsMulticommand /\ Done
     /\ commands # <<>>
     /\ calls[1].outcome = "APIError"
     /\ \A k \in Individual : calls[k].outcome \in {"return", "APIError"})
    => /\ Returned
       /\ IndividualCommands = commands
       /\ \A k \in Individual :
            calls[k].outcome = "return" => calls[k].cmd \in DOMAIN result[2]

(* C2: a command whose individual send fails with APIError has no key in  *)
(* the returned reply.                                                     *)
C2_FailedCommandHasNoKey ==
    (IsMulticommand /\ Returned /\ FellBack /\ commands # <<>>)
    => \A k \in Individual :
         calls[k].outcome = "APIError" => calls[k].cmd \notin DOMAIN result[2]

(* C3: the sequential fallback is entered exactly when the batched attempt *)
(* raised APIError; a batched reply ends the call with no individual       *)
(* request, any other error kind ends it by propagating, with no further   *)
(* request.                                                                *)
C3_FallbackIffBatchedAPIError ==
    IsMulticommand =>
        /\ (FellBack \/ pc = "x19") <=> calls[1].outcome = "APIError"
        /\ calls[1].outcome = "return" => Len(calls) = 1 /\ Returned
        /\ calls[1].outcome \in ErrorKinds \ {"APIError"} =>
             Len(calls) = 1 /\ RaisedKind(calls[1].outcome)

C3_Witness ==
    /\ IsMulticommand
    /\ Len(commands) >= 2
    /\ calls[1].io
    /\ RaisedKind("MalformedReply")

(* C4: every reply multicommand returns has multicommand = True, from the  *)
(* batched round-trip or from the fallback, whatever succeeded there.      *)
C4_ReplyIsMarked ==
    (IsMulticommand /\ Returned)
    => /\ MulticommandKey \in DOMAIN result[2]
       /\ result[2][MulticommandKey] = TRUE

C4_Witness ==
    /\ IsMulticommand /\ Returned /\ FellBack
    /\ \A k \in Individual : calls[k].outcome # "return"
    /\ result[2][MulticommandKey] = TRUE

(* C5: when the miner rejects the joined line and answers every individual *)
(* command with success, the fallback makes one request/response cycle per *)
(* validated command, in the caller's order, one at a time, none twice.    *)
C5_OneCyclePerCommandInOrder ==
    (/\ IsMulticommand
     /\ commands # <<>>
     /\ calls[1].io /\ calls[1].outcome = "APIError"
     /\ \A k \in Individual : calls[k].outcome \in {"pending", "return"})
    => /\ \A k \in Individual :
            /\ k - 1 <= Len(commands)
            /\ calls[k].cmd = commands[k - 1]
            /\ calls[k].parameters = PyNone
       /\ \A k \in 1..(Len(calls) - 1) : calls[k].outcome # "pending"
       /\ Done => /\ IndividualCommands = commands
                  /\ \A k \in Individual : calls[k].io

C5_Witness ==
    /\ IsMulticommand /\ Returned
    /\ Len(commands) >= 2
    /\ calls[1].io /\ calls[1].status = "E"
    /\ IndividualCommands = commands
    /\ \A k \in Individual : calls[k].io /\ calls[k].status = "S"

(* C6: multicommand never raises APIError; when the miner answers every    *)
(* request (with whatever status) the call returns a reply.                *)
C6_NeverRaisesAPIError ==
    IsMulticommand =>
        /\ ~RaisedKind("APIError")
        /\ (Done /\ \A k \in 1..Len(calls) : calls[k].outcome \in {"return", "APIError"})
             => Returned

C6_Witness ==
    /\ IsMulticommand /\ Returned
    /\ calls[1].status = "E"
    /\ \E k \in Individual : calls[k].status = "E"

(* C7, as claimed: a connection failure of an individual send_command in   *)
(* the fallback reaches the caller of multicommand as an error.            *)
C7_ConnectionFailureSurfaces ==
    (/\ IsMulticommand /\ Done /\ FellBack
     /\ commands # <<>>
     /\ calls[Len(calls)].outcome = "ConnectionError")
    => RaisedKind("ConnectionError")

(* C7, amended: a connection failure of an individual send_command in the  *)
(* fallback is caught inside the fallback and logged as a warning; no      *)
(* further request is made and multicommand returns the reply built so     *)
(* far, marked multicommand = True.                                        *)
C7_ConnectionFailureSwallowed ==
    \A k \in Individual :
        (IsMulticommand /\ calls[k].outcome = "ConnectionError")
        => /\ k = Len(calls)
           /\ Returned
           /\ result[2] = Mark(data)
           /\ result[2][MulticommandKey] = TRUE
           /\ calls[k].cmd \in DOMAIN result[2]
           /\ log # <<>> /\ log[Len(log)] = "warning"

C7_Witness ==
    /\ IsMulticommand /\ Returned
    /\ Len(calls) >= 3
    /\ calls[2].outcome = "return"
    /\ calls[Len(calls)].outcome = "ConnectionError"
    /\ calls[2].cmd \in DOMAIN result[2]

(* C8: the arguments are filtered through the allow-list before any I/O:   *)
(* an unsupported command is dropped, is in no request line, batched or    *)
(* individual, and the batched line is the "+"-join of the supported       *)
(* commands in the caller's order.                                         *)
C8_UnsupportedCommandsDropped ==
    IsMulticommand =>
        LET args == call.args[1]
            supported == SelectSeq(args, LAMBDA c : c \in AllowList)
        IN /\ commands = supported
           /\ calls[1].cmd = Join(supported)
           /\ \A a \in Range(args) \ AllowList :
                \A k \in 1..Len(calls) : a \notin Range(Split(calls[k].cmd))

C8_Witness ==
    /\ IsMulticommand /\ Returned /\ FellBack
    /\ call.args[1] = <<(<<"pools">>), (<<"asccount">>), (<<"summary">>)>>
    /\ calls[1].cmd = <<"pools", "+", "summary">>
    /\ IndividualCommands = <<(<<"pools">>), (<<"summary">>)>>

(* C9: every wrapper makes one send_command call, for the API command the  *)
(* method is named after (failover_only for failover-only).                *)
C9_WrapperSendsItsOwnCommand ==
    IsWrapper =>
        /\ Len(calls) = 1
        /\ calls[1].cmd =
             <<IF call.method = "failover_only" THEN "failover-only" ELSE call.method>>

(* C10: pgaset(n, opt, val) with any val given, 0 included, sends pgaset   *)
(* with the parameters "n,opt,val"; "n,opt" only when val is omitted.      *)
C10_PgasetSendsValue ==
    call.method = "pgaset" =>
        LET n == call.args[1]
            opt == call.args[2]
            val == call.args[3]
        IN /\ calls[1].cmd = <<"pgaset">>
           /\ calls[1].parameters =
                IF val = PyNone
                THEN PyStr(<<ToString(n[2]), ",", opt[2][1]>>)
                ELSE PyStr(<<ToString(n[2]), ",", opt[2][1], ",", ToString(val[2])>>)

(* C11: the batched attempt is sent with the caller's allow_warning, every *)
(* individual request of the fallback with allow_warning = True; so a call *)
(* made with allow_warning = False can return replies of warning status.   *)
C11_FallbackToleratesWarnings ==
    IsMulticommand =>
        /\ calls[1].allow_warning = call.args[2]
        /\ \A k \in Individual : calls[k].allow_warning = TRUE
        /\ \A k \in Individual : calls[k].status = "W" => calls[k].outcome = "return"

C11_Witness ==
    /\ IsMulticommand /\ Returned /\ FellBack
    /\ call.args[2] = FALSE
    /\ calls[1].allow_warning = FALSE
    /\ calls[1].status = "W"
    /\ calls[2].status = "W"
    /\ result[2][calls[2].cmd] = <<Reply(2, calls[2].cmd, "W")>>

(* C12: in a reply of the sequential fallback every key but multicommand   *)
(* is a requested command and maps to a sequence of exactly one element,   *)
(* the reply of that command's own individual send_command.  Stated for   *)
(* calls in which the miner answers every individual request.              *)
C12_FallbackEntriesHoldOneOwnReply ==
    (/\ IsMulticommand /\ Returned /\ FellBack
     /\ commands # <<>>
     /\ \A k \in Individual : calls[k].outcome \in {"return", "APIError"})
    => \A key \in DOMAIN result[2] \ {MulticommandKey} :
         /\ key \in Range(commands)
         /\ Len(result[2][key]) = 1
         /\ \E k \in Individual :
              /\ calls[k].cmd = key
              /\ calls[k].outcome = "return"
              /\ result[2][key][1] = Reply(k, key, calls[k].status)

(* C13: the commands the fallback sends, the joined line split on "+", are *)
(* the validated commands, for every validated list: for the empty list no *)
(* individual request is made and no empty-named key is added, and a       *)
(* repeated command is sent as often as it was given.                      *)
C13_SplitOfJoinIsValidatedList ==
    (IsMulticommand /\ (FellBack \/ pc = "x19"))
    => /\ x19_commands = commands
       /\ commands = <<>> => /\ ~FellBack
                             /\ <<>> \notin DOMAIN data

====
